---- MODULE Spec2Model ----
(***************************************************************************)
(* Model of the 3GPP RAG assistant's ingestion and retrieval core:         *)
(*   - DocumentProcessor.clean_text / chunk_text                           *)
(*       (src/src/core/document_processor_COMPLETE.py, and the identical   *)
(*        loop of UnifiedDocumentProcessor.chunk_text)                     *)
(*   - DocumentRetriever.retrieve (src/src/core/retriever.py)              *)
(*   - the document loaders and process_directory                          *)
(*       (document_processor_UNIFIED.py, _DOC.py and _DOCX.py)             *)
(*   - VectorStore.add_chunks / clear (src/src/core/vector_store.py)       *)
(* A text is a sequence of one-character strings.                          *)
(***************************************************************************)
EXTENDS Integers, Sequences, FiniteSets, TLC

(***************************************************************************)
(* Bounds of the model.                                                    *)
(***************************************************************************)
MaxTextLen == 5
MaxChunkSize == 3
MaxOverlap == 2
MaxMinChunk == 2
\* cap on the number of loop iterations that are explored; a terminating
\* call needs fewer (the cursor would grow on every iteration)
MaxIters == MaxTextLen + 2

(***************************************************************************)
(* Characters.  Python's \s, \d and \w classes restricted to the alphabet  *)
(* that the model draws its texts from.                                    *)
(***************************************************************************)
NL == "\n"
Whitespace == {" ", NL}
Digits == {"1", "3"}
WordChars == {"a", "b", "G", "P", "A", "T", "h", "i", "s", "t", "e", "n", "c"} \cup Digits
\* the punctuation that the character filter of clean_text keeps
KeptPunct == {".", ",", ";", ":", "(", ")", "[", "]", "-", "/"}
\* the characters that end a sentence in chunk_text's boundary search
SentenceEnd == {".", "!", "?"}
\* the alphabet of the raw texts handed to chunk_text
ChunkAlphabet == {"a", ".", " ", "!"}

Min(a, b) == IF a < b THEN a ELSE b
Max(a, b) == IF a > b THEN a ELSE b

\* Python slice t[lo:hi] for 0 <= lo, with 0-based offsets
Slice(t, lo, hi) == SubSeq(t, lo + 1, Min(hi, Len(t)))

\* all sequences over S of length at most n
RECURSIVE SeqsUpTo(_, _)
SeqsUpTo(S, n) ==
    IF n = 0 THEN {<<>>}
    ELSE LET shorter == SeqsUpTo(S, n - 1)
         IN  shorter \cup {Append(t, c) : t \in {u \in shorter : Len(u) = n - 1}, c \in S}

\* the least member of a non-empty set of integers
SetMin(S) == CHOOSE x \in S : \A y \in S : x <= y
SetMax(S) == CHOOSE x \in S : \A y \in S : x >= y

(***************************************************************************)
(* clean_text: the five steps of DocumentProcessor.clean_text, each regex  *)
(* substitution scanning left to right over non-overlapping matches.       *)
(***************************************************************************)
\* index of the first character at or after i that is not whitespace
\* (Len(t) + 1 when the run reaches the end of t): where a greedy \s* stops
RECURSIVE RunEnd(_, _)
RunEnd(t, i) ==
    IF i > Len(t) \/ t[i] \notin Whitespace THEN i ELSE RunEnd(t, i + 1)

\* where a greedy \d* stops
RECURSIVE DigitsEnd(_, _)
DigitsEnd(t, i) ==
    IF i > Len(t) \/ t[i] \notin Digits THEN i ELSE DigitsEnd(t, i + 1)

\* re.sub(r'\s+', ' ', text): every character that is no whitespace stays,
\* and of every whitespace run the first position stays, as one space
CollapseWhitespace(t) ==
    LET Stays(i) == t[i] \notin Whitespace \/ i = 1 \/ t[i - 1] \notin Whitespace
        staying == SelectSeq([i \in 1..Len(t) |-> i], Stays)
    IN  [j \in 1..Len(staying) |->
            IF t[staying[j]] \in Whitespace THEN " " ELSE t[staying[j]]]

\* the literal 3GPP of the header pattern
SeriesMarker == <<"3", "G", "P", "P">>

\* end (index after the match) of a match of \n\d+\s+3GPP.*?\n that starts
\* at i, or 0 when there is none
HeaderMatchEnd(t, i) ==
    IF t[i] # NL THEN 0
    ELSE LET d == DigitsEnd(t, i + 1)
             w == RunEnd(t, d)
             g == w + Len(SeriesMarker)
             nls == {j \in g..Len(t) : t[j] = NL}
         IN  IF d = i + 1 \/ w = d THEN 0
             ELSE IF g - 1 > Len(t) \/ SubSeq(t, w, g - 1) # SeriesMarker THEN 0
             ELSE IF nls = {} THEN 0
             ELSE SetMin(nls) + 1

\* re.sub(r'\n\d+\s+3GPP.*?\n', '\n', text), from position i on: the text
\* up to the next match is kept, the match becomes one newline, and the
\* scan goes on after the match
RECURSIVE RemoveHeadersFrom(_, _)
RemoveHeadersFrom(t, i) ==
    LET matches == {j \in i..Len(t) : HeaderMatchEnd(t, j) # 0}
    IN  IF matches = {} THEN SubSeq(t, i, Len(t))
        ELSE SubSeq(t, i, SetMin(matches) - 1) \o <<NL>>
                 \o RemoveHeadersFrom(t, HeaderMatchEnd(t, SetMin(matches)))

RemoveHeaders(t) == RemoveHeadersFrom(t, 1)

\* end (index after the match) of a match of \n\s*\n\s*\n+ that starts at i,
\* or 0: the whitespace run from i must hold three newlines, and the greedy
\* match stops after the last newline of the run
BlankLinesMatchEnd(t, i) ==
    IF t[i] # NL THEN 0
    ELSE LET nls == {j \in i..(RunEnd(t, i) - 1) : t[j] = NL}
         IN  IF Cardinality(nls) < 3 THEN 0 ELSE SetMax(nls) + 1

\* re.sub(r'\n\s*\n\s*\n+', '\n\n', text), from position i on
RECURSIVE NormalizeLineBreaksFrom(_, _)
NormalizeLineBreaksFrom(t, i) ==
    LET matches == {j \in i..Len(t) : BlankLinesMatchEnd(t, j) # 0}
    IN  IF matches = {} THEN SubSeq(t, i, Len(t))
        ELSE SubSeq(t, i, SetMin(matches) - 1) \o <<NL, NL>>
                 \o NormalizeLineBreaksFrom(t, BlankLinesMatchEnd(t, SetMin(matches)))

NormalizeLineBreaks(t) == NormalizeLineBreaksFrom(t, 1)

\* the character class [\w\s.,;:()\[\]\-/\n] of the filter
Kept(c) == c \in WordChars \cup Whitespace \cup KeptPunct

\* re.sub(r'[^\w\s.,;:()\[\]\-/\n]', '', text)
FilterChars(t) == SelectSeq(t, Kept)

\* str.strip()
Strip(t) ==
    LET body == {j \in 1..Len(t) : t[j] \notin Whitespace}
    IN  IF body = {} THEN <<>> ELSE SubSeq(t, SetMin(body), SetMax(body))

clean_text(t) ==
    Strip(FilterChars(NormalizeLineBreaks(RemoveHeaders(CollapseWhitespace(t)))))

(***************************************************************************)
(* State.                                                                  *)
(***************************************************************************)
VARIABLES
    \* DocumentProcessor: the configuration set by __init__
    chunk_size, chunk_overlap, min_chunk_size,
    \* chunk_text: its locals, and where the call stands
    pc,          \* "idle" (not called), "loop" (at the while test), "done"
    text,        \* the text being chunked (rebound to clean_text(text))
    metadata,    \* the caller's metadata mapping
    start, end,  \* the cursor, and the end of the last slice (0 before one)
    chunk_id,
    chunks,
    iterations,  \* history: one record per loop iteration, in order
    \* DocumentRetriever: self.top_k, and the last retrieve call
    self_top_k,
    rpc,             \* "idle" (not called), "returned", "raised"
    port_calls,      \* history: the calls of the two ports, with their outcome
    error,           \* the exception that left retrieve (None when it returned)
    top_k,           \* the call's top_k argument (None when not passed)
    source_filter,   \* the call's source_filter argument (None when not passed)
    n_results,       \* the n_results of each vector_store.query of the call, in order
    results,         \* what the Index Port answered
    retrieved_docs,  \* the list returned
    \* the document loaders: the processor object, and the last load call
    processor,             \* the class of the object: "Unified", "Legacy", "Docx"
    platform,              \* sys.platform
    extraction_method,     \* LegacyDocProcessor.extraction_method
    available_methods,     \* LegacyDocProcessor.available_methods
    available_processors,  \* UnifiedDocumentProcessor.available_processors
    xpc,                   \* "idle" (not called), "returned", "raised"
    file_exists,           \* file_path.exists()
    suffix,                \* file_path.suffix, without its dot
    outcome,               \* "none", "ok", or the kind of the failure raised
    trace,                 \* history: what the call invoked, in order
    \* process_directory: its locals, and where the call stands
    bpc,           \* "idle", "loop" (at the for statement), "returned", "raised"
    directory_exists,  \* directory.exists()
    batch_class,   \* the class whose process_directory runs
    all_files,     \* the files found, in processing order
    file_index,    \* how many of them the loop has taken
    all_chunks,
    failed_files,
    batch_result,  \* the value returned
    processed,     \* history: what happened to each document taken
    \* clean_text applied to a raw text, and again to its own output
    cpc,        \* "idle", "cleaned"
    cleaner,    \* the class whose clean_text was applied
    raw_text,
    cleaned,
    recleaned,
    \* VectorStore: the collection, and the locals of the last add_chunks call
    vpc,           \* "idle" (no call yet, or cleared), "batches", "returned", "raised"
    collection,    \* the records that the collection holds
    embedded_chunks,  \* the chunks argument of the call
    ids, embeddings, documents, metadatas,
    batch_start,   \* the i of the batch loop
    submitted,     \* history: the arguments of each collection.add of the call
    added,         \* history: the length of each list added since the last clear
    add_calls      \* history: the number of add_chunks calls made

chunkVars == <<chunk_size, chunk_overlap, min_chunk_size, pc, text, metadata,
               start, end, chunk_id, chunks, iterations>>

retrieveVars == <<self_top_k, rpc, port_calls, error, top_k, source_filter, n_results,
                  results, retrieved_docs>>

extractVars == <<processor, platform, extraction_method, available_methods,
                 available_processors, xpc, file_exists, suffix, outcome, trace>>

batchVars == <<bpc, directory_exists, batch_class, all_files, file_index, all_chunks, failed_files,
               batch_result, processed>>

cleanVars == <<cpc, cleaner, raw_text, cleaned, recleaned>>

storeVars == <<vpc, collection, embedded_chunks, ids, embeddings, documents, metadatas,
               batch_start, submitted, added, add_calls>>

pipelineVars == <<extractVars, batchVars, cleanVars, storeVars>>

vars == <<chunkVars, retrieveVars, pipelineVars>>

(***************************************************************************)
(* chunk_text                                                              *)
(***************************************************************************)
\* (mutation of SnapWindow: the window is twice as wide)
SnapWindowDoubled == 2 * 100

\* half-width of the window searched for a sentence end
SnapWindow == 100

\* [m.end() for m in re.finditer(r'[.!?]\s+', w)]: the offsets in w just
\* after a sentence-ending character and the whitespace run that follows it
SentenceEndings(w) ==
    {RunEnd(w, p + 1) - 1 :
        p \in {q \in 1..(Len(w) - 1) : w[q] \in SentenceEnd /\ w[q + 1] \in Whitespace}}

\* (mutation of SliceEnd: the end is never moved to a sentence end)
SliceEndUnsnapped(t, s, size) == s + size

\* the end of the slice that starts at s: s + size, moved to the last
\* sentence end of the window when the slice is not the last one
SliceEnd(t, s, size) ==
    LET e == s + size
        search_start == Max(s, e - SnapWindow)
        sentence_endings == SentenceEndings(Slice(t, search_start, e + SnapWindow))
    IN  IF e < Len(t) /\ sentence_endings # {}
        THEN search_start + SetMax(sentence_endings)
        ELSE e

\* whether the boundary search found a sentence end for the slice at s
Snapped(t, s, size) ==
    LET e == s + size
        search_start == Max(s, e - SnapWindow)
    IN  e < Len(t) /\ SentenceEndings(Slice(t, search_start, e + SnapWindow)) # {}

\* (mutation of MeetsMinimum: the comparison is off by one)
MeetsMinimumOffByOne(c, minimum) == Len(c) + 1 >= minimum

\* len(chunk_text) >= self.min_chunk_size
MeetsMinimum(c, minimum) == Len(c) >= minimum

\* (mutation of ChunkMetadata: start_char and chunk_size take each other's value)
ChunkMetadataSwapped(md, id, s, e, c) ==
    [k \in DOMAIN md \cup {"chunk_index", "start_char", "end_char", "chunk_size"} |->
        CASE k = "chunk_index" -> id
          [] k = "start_char" -> Len(c)
          [] k = "end_char" -> e
          [] k = "chunk_size" -> s
          [] OTHER -> md[k]]

\* (mutation of ChunkMetadata: the mapping holds the four chunk fields only)
ChunkMetadataFieldsOnly(md, id, s, e, c) ==
    [chunk_index |-> id, start_char |-> s, end_char |-> e, chunk_size |-> Len(c)]

\* metadata.copy() updated with the four chunk fields
ChunkMetadata(md, id, s, e, c) ==
    [k \in DOMAIN md \cup {"chunk_index", "start_char", "end_char", "chunk_size"} |->
        CASE k = "chunk_index" -> id
          [] k = "start_char" -> s
          [] k = "end_char" -> e
          [] k = "chunk_size" -> Len(c)
          [] OTHER -> md[k]]

\* DocumentChunk(text=chunk_text, metadata=chunk_metadata, chunk_id=chunk_id)
DocumentChunk(c, md, id) == [text |-> c, metadata |-> md, chunk_id |-> id]

\* (mutation of NextChunkId: the counter advances on every iteration)
NextChunkIdEveryIteration(id, emit) == id + 1

\* chunk_id += 1, inside the branch that appends the chunk
NextChunkId(id, emit) == IF emit THEN id + 1 ELSE id

\* (mutation of NextStart: the overlap is one character too long)
NextStartOffByOne(e, overlap) == IF e - overlap - 1 <= 0 THEN 1 ELSE e - overlap - 1

\* start = end - self.chunk_overlap; if start <= 0: start = 1
NextStart(e, overlap) == IF e - overlap <= 0 THEN 1 ELSE e - overlap

\* the metadata mappings that callers pass
Metadatas ==
    {[source |-> "test.pdf", title |-> "Test Document"],
     [source |-> "test.pdf", title |-> "Test Document", chunk_size |-> 7]}

\* the call: text = self.clean_text(text), and the locals before the loop
ChunkTextCall ==
    /\ pc = "idle"
    /\ \E raw \in SeqsUpTo(ChunkAlphabet, MaxTextLen) : text' = clean_text(raw)
    /\ \E md \in Metadatas : metadata' = md
    /\ chunks' = <<>>
    /\ chunk_id' = 0
    /\ start' = 0
    /\ end' = 0
    /\ iterations' = <<>>
    /\ pc' = "loop"
    /\ UNCHANGED <<chunk_size, chunk_overlap, min_chunk_size>>
    /\ UNCHANGED <<retrieveVars, pipelineVars>>

\* the sentence of test_chunk_text_basic, and how often the test repeats it
Sentence ==
    <<"T", "h", "i", "s", " ", "i", "s", " ", "a", " ", "t", "e", "s", "t", " ",
      "s", "e", "n", "t", "e", "n", "c", "e", ".", " ">>
ScenarioRepeats == 10
\* the configuration of test_chunk_text_basic
ScenarioChunkSize == 50
ScenarioOverlap == 10
ScenarioMinChunk == 20

\* s * n
Repeat(s, n) == [i \in 1..(n * Len(s)) |-> s[((i - 1) % Len(s)) + 1]]

\* texts longer than the search window: the sentence repeated, a text
\* without a sentence end, one whose only sentence end lies far behind the
\* first slices, and one whose only sentence end lies at its start
LongTexts ==
    {Repeat(Sentence, n) : n \in 1..ScenarioRepeats}
        \cup {Repeat(<<"a">>, 120),
              Repeat(<<"a">>, 200) \o <<".", " ">> \o Repeat(<<"a">>, 50),
              <<"A", ".", " ">> \o Repeat(<<"b">>, 300)}

\* the call, for a long text
ChunkLongTextCall ==
    /\ pc = "idle"
    /\ \E raw \in LongTexts : text' = clean_text(raw)
    /\ \E md \in Metadatas : metadata' = md
    /\ chunks' = <<>>
    /\ chunk_id' = 0
    /\ start' = 0
    /\ end' = 0
    /\ iterations' = <<>>
    /\ pc' = "loop"
    /\ UNCHANGED <<chunk_size, chunk_overlap, min_chunk_size>>
    /\ UNCHANGED <<retrieveVars, pipelineVars>>

\* one iteration of the while loop
ChunkIter ==
    /\ pc = "loop"
    /\ start < Len(text)
    /\ Len(iterations) < MaxIters
    /\ \E e \in {SliceEnd(text, start, chunk_size)} :
       \E c \in {Strip(Slice(text, start, e))} :
       \E emit \in {MeetsMinimum(c, min_chunk_size)} :
           /\ end' = e
           /\ chunks' = IF emit
                        THEN Append(chunks,
                                 DocumentChunk(c, ChunkMetadata(metadata, chunk_id, start, e, c),
                                               chunk_id))
                        ELSE chunks
           /\ chunk_id' = NextChunkId(chunk_id, emit)
           /\ start' = NextStart(e, chunk_overlap)
           /\ iterations' = Append(iterations,
                                [start |-> start, end |-> e,
                                 snapped |-> Snapped(text, start, chunk_size),
                                 emitted |-> emit])
    /\ UNCHANGED <<chunk_size, chunk_overlap, min_chunk_size, pc, text, metadata>>
    /\ UNCHANGED <<retrieveVars, pipelineVars>>

\* the loop test fails: return chunks
ChunkReturn ==
    /\ pc = "loop"
    /\ start >= Len(text)
    /\ pc' = "done"
    /\ UNCHANGED <<chunk_size, chunk_overlap, min_chunk_size, text, metadata,
                   start, end, chunk_id, chunks, iterations>>
    /\ UNCHANGED <<retrieveVars, pipelineVars>>

(***************************************************************************)
(* DocumentRetriever.retrieve                                              *)
(***************************************************************************)
\* bounds of the retrieval model
MaxTopK == 2
MaxIndexSize == 3
MaxDistance == 1

\* an Optional argument: None, or Some(v) for the value v
None == <<>>
Some(v) == <<v>>

\* a source name is a sequence of characters
Sources == {<<"a">>, <<"u", "a">>}
\* the default name under which a candidate without a source is reported
Unknown == <<"u", "n", "k", "n", "o", "w", "n">>
\* the metadata mappings of the stored records: with a source, and without
CandidateMetadatas ==
    {[source |-> src, chunk_index |-> 1] : src \in Sources} \cup {[chunk_size |-> 1]}
\* the source_filter arguments: not passed, the empty string, two names
SourceFilters == {None, Some(<<>>), Some(<<"a">>), Some(<<"u">>)}
\* the top_k arguments: not passed, or a non-negative integer
TopKs == {None} \cup {Some(k) : k \in 0..MaxTopK}

\* s in t, for strings
IsSubstring(s, t) ==
    \E i \in 0..(Len(t) - Len(s)) : SubSeq(t, i + 1, i + Len(s)) = s

\* md.get(key, default)
Get(md, key, default) == IF key \in DOMAIN md THEN md[key] ELSE default

\* the truth value Python gives an Optional[int]: None and 0 are false
TruthyInt(v) == v # None /\ v[1] # 0
\* the truth value Python gives an Optional[str]: None and '' are false
TruthyStr(v) == v # None /\ v[1] # <<>>

\* k = top_k or self.top_k
EffectiveK(k, default) == IF TruthyInt(k) THEN k[1] ELSE default

\* n_results=k * 2 if source_filter else k
RequestedResults(k, flt) == IF TruthyStr(flt) THEN k * 2 ELSE k

\* what the Index Port may answer to query(vector, n): at most n candidates,
\* by ascending distance; the i-th document is named by its rank i
PortAnswers(n) ==
    UNION {{[documents |-> [i \in 1..len |-> i], metadatas |-> mds, distances |-> ds] :
               mds \in [1..len -> CandidateMetadatas],
               ds \in {d \in [1..len -> 0..MaxDistance] :
                          \A i \in 1..(len - 1) : d[i] <= d[i + 1]}} :
           len \in 0..Min(n, MaxIndexSize)}

\* (mutation of FilteredOut: the test uses the default name of the output)
FilteredOutDefaultName(flt, md) ==
    TruthyStr(flt) /\ ~IsSubstring(flt[1], Get(md, "source", Unknown))

\* source_filter and source_filter not in metadata.get('source', '')
FilteredOut(flt, md) == TruthyStr(flt) /\ ~IsSubstring(flt[1], Get(md, "source", <<>>))

\* (mutation of Similarity: the distance is reported unconverted)
SimilarityUnconverted(distance) == distance

\* similarity = 1 - distance
Similarity(distance) == 1 - distance

\* the dict appended for an accepted candidate
RetrievedDoc(doc, md, distance) ==
    [text |-> doc,
     source |-> Get(md, "source", Unknown),
     chunk_index |-> Get(md, "chunk_index", 0),
     similarity |-> Similarity(distance)]

\* the for loop over zip(documents, metadatas, distances), from candidate i on
RECURSIVE Collect(_, _, _, _, _)
Collect(res, i, acc, k, flt) ==
    IF i > Len(res.documents) THEN acc
    ELSE IF FilteredOut(flt, res.metadatas[i]) THEN Collect(res, i + 1, acc, k, flt)
    ELSE LET docs == Append(acc, RetrievedDoc(res.documents[i], res.metadatas[i],
                                              res.distances[i]))
         IN  IF Len(docs) >= k THEN docs ELSE Collect(res, i + 1, docs, k, flt)

\* the exceptions that a port can raise
PortFailures == {"RuntimeError", "ValueError"}
\* what a call of a port does: it returns, or it raises
PortOutcomes == {"ok"} \cup PortFailures

PortCall(port, how) == [port |-> port, outcome |-> how]

\* (mutation of CallsMade: the index is queried whatever the embedding did)
CallsMadeQueryAlways(embedded, queried) ==
    <<PortCall("embed", embedded), PortCall("query", queried)>>

\* the port calls of one retrieve, in order: generate_embedding(query),
\* then vector_store.query(...) when the embedding was returned
CallsMade(embedded, queried) ==
    IF embedded # "ok" THEN <<PortCall("embed", embedded)>>
    ELSE <<PortCall("embed", embedded), PortCall("query", queried)>>

\* the exception that leaves retrieve, which has no handler: the one of
\* the last port call made, if that call raised
Propagated(made) ==
    IF made[Len(made)].outcome = "ok" THEN None ELSE Some(made[Len(made)].outcome)

\* retrieve(query, top_k=k, source_filter=flt)
Retrieve(k, flt) ==
    /\ rpc = "idle"
    /\ top_k' = k
    /\ source_filter' = flt
    /\ \E embedded \in PortOutcomes, queried \in PortOutcomes :
       \E made \in {CallsMade(embedded, queried)} :
          /\ embedded # "ok" => queried = "ok"
          /\ port_calls' = made
          /\ error' = Propagated(made)
          /\ n_results' = [i \in 1..(Len(made) - 1) |->
                              RequestedResults(EffectiveK(k, self_top_k), flt)]
          /\ IF Propagated(made) # None
             THEN /\ rpc' = "raised"
                  /\ UNCHANGED <<results, retrieved_docs>>
             ELSE /\ \E res \in PortAnswers(RequestedResults(EffectiveK(k, self_top_k), flt)) :
                        /\ results' = res
                        /\ retrieved_docs' =
                               Collect(res, 1, <<>>, EffectiveK(k, self_top_k), flt)
                  /\ rpc' = "returned"
    /\ UNCHANGED self_top_k
    /\ UNCHANGED <<chunkVars, pipelineVars>>

(***************************************************************************)
(* The document loaders: UnifiedDocumentProcessor.load_document,           *)
(* LegacyDocProcessor.load_doc and the Word processor's load_document.     *)
(* A call is one action; trace records what it invoked, in order.          *)
(***************************************************************************)
\* str.lower(), on the letters of the extensions
Lower(c) ==
    CASE c = "P" -> "p" [] c = "D" -> "d" [] c = "F" -> "f"
      [] c = "O" -> "o" [] c = "C" -> "c" [] c = "X" -> "x"
      [] OTHER -> c

\* (mutation of LowerStr: the case is kept)
LowerStrUnchanged(s) == s

LowerStr(s) == [i \in 1..Len(s) |-> Lower(s[i])]

\* the extensions that the loaders compare file_path.suffix.lower() with
DotPdf == <<".", "p", "d", "f">>
DotDocx == <<".", "d", "o", "c", "x">>
DotDoc == <<".", "d", "o", "c">>

\* the values of file_path.suffix: the three formats in lower, upper and
\* mixed case, another extension, and no extension
Suffixes ==
    {DotPdf, <<".", "P", "D", "F">>, DotDocx, <<".", "D", "o", "c", "X">>,
     DotDoc, <<".", "D", "O", "C">>, <<".", "t", "x", "t">>, <<>>}

Platforms == {"win32", "linux"}

\* the extraction methods of legacy .doc files
Backends == {"antiword", "textract", "win32com", "libreoffice"}
\* the methods that UnifiedDocumentProcessor._detect_processors looks for
UnifiedDocMethods == {"antiword", "textract", "win32com"}
\* the values of the extraction_method argument: 'auto', a method, or a
\* name that is no method
ExtractionMethods == {"auto"} \cup Backends \cup {"catdoc"}

\* the candidate binaries of the LibreOffice method, in the order tried
LibreOfficeBins == <<"libreoffice", "soffice", "openoffice">>

\* what _detect_available_methods can return on a platform (win32com is
\* looked for on win32 only)
DetectedMethods(plat, methods) ==
    {S \in SUBSET methods : "win32com" \in S => plat = "win32"}

\* what _detect_processors can return on a platform
DetectedProcessors(plat) ==
    {[pdf |-> p, docx |-> d, doc |-> (m # {}), doc_methods |-> m] :
        p \in BOOLEAN, d \in BOOLEAN, m \in DetectedMethods(plat, UnifiedDocMethods)}

\* the entries of trace
Load(loader) == [kind |-> "load", what |-> loader]
Run(backend) == [kind |-> "run", what |-> backend]
Probe(bin) == [kind |-> "probe", what |-> bin]
Convert(bin) == [kind |-> "convert", what |-> bin]
Converted(conv) == [kind |-> "converted", what |-> conv]
MkTemp == [kind |-> "mkdtemp", what |-> "tmpdir"]
RmTemp == [kind |-> "rmtree", what |-> "tmpdir"]

\* how a call ends: "ok", or the kind of failure raised, after trace t
Result(o, t) == [outcome |-> o, trace |-> t]

\* a library or tool that is run on the file: it returns, or it raises
Behaviours == {"ok", "fails"}
\* the conversion process of the LibreOffice method: it writes the text
\* file, exits non-zero, or exits zero without writing the file
Conversions == {"ok", "fails", "no_output"}

Finished(how) == IF how = "ok" THEN "ok" ELSE "ExtractionFailed"

\* (mutation of TemporaryDirectoryExit: the directory is removed only when
\* the block is left normally)
TemporaryDirectoryExitOnSuccess(conv) == IF conv = "ok" THEN <<RmTemp>> ELSE <<>>

\* leaving the block of `with tempfile.TemporaryDirectory() as tmpdir`,
\* normally or by an exception
TemporaryDirectoryExit(conv) == <<RmTemp>>

\* LegacyDocProcessor._extract_with_libreoffice: bin is the position in
\* LibreOfficeBins of the first binary that answers --version now (0 when
\* none does)
ExtractWithLibreOffice(bin, conv) ==
    LET tried == IF bin = 0 THEN Len(LibreOfficeBins) ELSE bin
        probes == [i \in 1..tried |-> Probe(LibreOfficeBins[i])]
    IN  IF bin = 0 THEN Result("ExtractionFailed", probes)
        ELSE Result(Finished(conv),
                    probes \o <<MkTemp, Convert(LibreOfficeBins[bin]), Converted(conv)>>
                           \o TemporaryDirectoryExit(conv))

\* no method selected
NoMethod == "none"

\* (mutation of SelectMethod: a requested method is used without looking
\* it up in available_methods)
SelectMethodUnchecked(plat, requested, avail) ==
    IF requested = "auto"
    THEN IF plat = "win32" /\ "win32com" \in avail THEN "win32com"
         ELSE IF "antiword" \in avail THEN "antiword"
         ELSE IF "textract" \in avail THEN "textract"
         ELSE IF "libreoffice" \in avail THEN "libreoffice"
         ELSE NoMethod
    ELSE IF requested \in Backends THEN requested ELSE NoMethod

\* LegacyDocProcessor.load_doc, "Determine which method to use"
SelectMethod(plat, requested, avail) ==
    IF requested = "auto"
    THEN IF plat = "win32" /\ "win32com" \in avail THEN "win32com"
         ELSE IF "antiword" \in avail THEN "antiword"
         ELSE IF "textract" \in avail THEN "textract"
         ELSE IF "libreoffice" \in avail THEN "libreoffice"
         ELSE NoMethod
    ELSE IF requested \in avail THEN requested ELSE NoMethod

\* LegacyDocProcessor.load_doc
LegacyLoadDocResult(exists, sfx, plat, requested, avail, how, bin, conv) ==
    LET method == SelectMethod(plat, requested, avail)
    IN  IF ~exists THEN Result("NotFound", <<>>)
        ELSE IF LowerStr(sfx) # DotDoc THEN Result("UnsupportedFormat", <<>>)
        ELSE IF method = NoMethod THEN Result("BackendUnavailable", <<>>)
        ELSE IF method = "libreoffice"
             THEN LET r == ExtractWithLibreOffice(bin, conv)
                  IN  Result(r.outcome, <<Run(method)>> \o r.trace)
        ELSE Result(Finished(how), <<Run(method)>>)

\* UnifiedDocumentProcessor._load_doc
UnifiedLoadDoc(procs, how) ==
    LET methods == Get(procs, "doc_methods", {})
    IN  IF "antiword" \in methods THEN Result(Finished(how), <<Run("antiword")>>)
        ELSE IF "textract" \in methods THEN Result(Finished(how), <<Run("textract")>>)
        ELSE IF "win32com" \in methods THEN Result(Finished(how), <<Run("win32com")>>)
        ELSE Result("BackendUnavailable", <<>>)

\* UnifiedDocumentProcessor.load_document
UnifiedLoadDocumentResult(exists, sfx, procs, how) ==
    LET file_ext == LowerStr(sfx)
    IN  IF ~exists THEN Result("NotFound", <<>>)
        ELSE IF file_ext = DotPdf
             THEN IF ~procs.pdf THEN Result("BackendUnavailable", <<>>)
                  ELSE Result(Finished(how), <<Load("_load_pdf"), Run("pypdf")>>)
        ELSE IF file_ext = DotDocx
             THEN IF ~procs.docx THEN Result("BackendUnavailable", <<>>)
                  ELSE Result(Finished(how), <<Load("_load_docx"), Run("python-docx")>>)
        ELSE IF file_ext = DotDoc
             THEN IF ~procs.doc THEN Result("BackendUnavailable", <<>>)
                  ELSE LET r == UnifiedLoadDoc(procs, how)
                       IN  Result(r.outcome, <<Load("_load_doc")>> \o r.trace)
        ELSE Result("UnsupportedFormat", <<>>)

\* the Word processor's load_docx
DocxLoadDocx(exists, how) ==
    IF ~exists THEN Result("NotFound", <<Load("load_docx")>>)
    ELSE Result(Finished(how), <<Load("load_docx"), Run("python-docx")>>)

\* the Word processor's load_doc: antiword is run on the path without any
\* test; installed tells whether the command is found
DocxLoadDoc(exists, installed, how) ==
    IF ~installed THEN Result("BackendUnavailable", <<Load("load_doc")>>)
    ELSE Result(IF exists THEN Finished(how) ELSE "ExtractionFailed",
                <<Load("load_doc"), Run("antiword")>>)

\* the Word processor's load_document
DocxLoadDocumentResult(exists, sfx, installed, how) ==
    LET file_ext == LowerStr(sfx)
    IN  IF file_ext = DotDocx THEN DocxLoadDocx(exists, how)
        ELSE IF file_ext = DotDoc THEN DocxLoadDoc(exists, installed, how)
        ELSE Result("UnsupportedFormat", <<>>)

\* the call has returned or raised with result r on a file
Loaded(exists, sfx, r) ==
    /\ file_exists' = exists
    /\ suffix' = sfx
    /\ outcome' = r.outcome
    /\ trace' = r.trace
    /\ xpc' = IF r.outcome = "ok" THEN "returned" ELSE "raised"
    /\ UNCHANGED <<processor, platform, extraction_method, available_methods,
                   available_processors>>
    /\ UNCHANGED <<chunkVars, retrieveVars, batchVars, cleanVars, storeVars>>

\* LegacyDocProcessor(...).load_doc(file_path)
LegacyLoadDoc ==
    /\ xpc = "idle"
    /\ processor = "Legacy"
    /\ \E exists \in BOOLEAN, sfx \in Suffixes, how \in Behaviours,
          bin \in 0..Len(LibreOfficeBins), conv \in Conversions :
          Loaded(exists, sfx,
                 LegacyLoadDocResult(exists, sfx, platform, extraction_method,
                                     available_methods, how, bin, conv))

\* UnifiedDocumentProcessor(...).load_document(file_path)
UnifiedLoadDocument ==
    /\ xpc = "idle"
    /\ processor = "Unified"
    /\ \E exists \in BOOLEAN, sfx \in Suffixes, how \in Behaviours :
          Loaded(exists, sfx,
                 UnifiedLoadDocumentResult(exists, sfx, available_processors, how))

\* the Word processor's load_document(file_path)
DocxLoadDocument ==
    /\ xpc = "idle"
    /\ processor = "Docx"
    /\ \E exists \in BOOLEAN, sfx \in Suffixes, installed \in BOOLEAN,
          how \in Behaviours :
          Loaded(exists, sfx, DocxLoadDocumentResult(exists, sfx, installed, how))

(***************************************************************************)
(* process_directory: the call lists the files, the loop takes them one    *)
(* after another, the return hands back all_chunks.                        *)
(***************************************************************************)
\* bounds of the batch model
MaxFiles == 3
MaxDocChunks == 2

\* the names that the glob patterns of process_directory can find
PdfNames == {"a.pdf", "b.pdf"}
DocxNames == {"c.docx"}
DocNames == {"d.doc"}

\* list(directory.glob(pattern)): the files of a set, each once, in any order
Globbed(S) == {s \in [1..Cardinality(S) -> S] : \A i, j \in 1..Cardinality(S) : s[i] = s[j] => i = j}

\* the values of all_files: the PDF files for DocumentProcessor, and
\* pdf_files + docx_files + doc_files for UnifiedDocumentProcessor
Listings(class) ==
    LET pdfs == UNION {Globbed(S) : S \in SUBSET PdfNames}
        docxs == UNION {Globbed(S) : S \in SUBSET DocxNames}
        docs == UNION {Globbed(S) : S \in SUBSET DocNames}
        all == IF class = "Complete" THEN pdfs
               ELSE {p \o x \o d : p \in pdfs, x \in docxs, d \in docs}
    IN  {l \in all : Len(l) <= MaxFiles}

\* what process_document / process_pdf can return for a file: the chunks
\* that chunk_text numbers from 0, with the file's name as their source
DocumentChunks(name) ==
    {[i \in 1..n |-> DocumentChunk(<<"a">>, [source |-> name, chunk_index |-> i - 1], i - 1)] :
        n \in 0..MaxDocChunks}

\* (mutation of Extend: the new chunks are put in front)
ExtendInFront(list, items) == items \o list

\* list.extend
Extend(list, items) == list \o items

\* the value that process_directory returns: the chunk list alone
Returned(chunk_list) == [chunks |-> chunk_list]

\* (mutation of ReturnOnNoFiles: an empty listing is reported as a failure)
RaiseOnNoFiles == [bpc |-> "raised", result |-> Returned(<<>>)]

\* if not all_files: ... return []
ReturnOnNoFiles == [bpc |-> "returned", result |-> Returned(<<>>)]

\* process_directory(directory), up to the for statement
ProcessDirectoryCall ==
    /\ bpc = "idle"
    /\ \E exists \in BOOLEAN, class \in {"Unified", "Complete"} :
          /\ batch_class' = class
          /\ directory_exists' = exists
          /\ IF ~exists
             THEN /\ bpc' = "raised"
                  /\ UNCHANGED <<all_files, batch_result>>
             ELSE \E files \in Listings(class) :
                     /\ all_files' = files
                     /\ IF files = <<>>
                        THEN /\ bpc' = ReturnOnNoFiles.bpc
                             /\ batch_result' = ReturnOnNoFiles.result
                        ELSE bpc' = "loop" /\ UNCHANGED batch_result
    /\ all_chunks' = <<>>
    /\ failed_files' = <<>>
    /\ file_index' = 0
    /\ processed' = <<>>
    /\ UNCHANGED <<chunkVars, retrieveVars, extractVars, cleanVars, storeVars>>

\* one turn of the loop of UnifiedDocumentProcessor.process_directory
UnifiedProcessNext ==
    /\ bpc = "loop"
    /\ batch_class = "Unified"
    /\ file_index < Len(all_files)
    /\ LET doc_file == all_files[file_index + 1]
       IN  \/ \E chunk_list \in DocumentChunks(doc_file) :
                 /\ all_chunks' = Extend(all_chunks, chunk_list)
                 /\ processed' = Append(processed,
                                    [name |-> doc_file, raised |-> FALSE, chunks |-> chunk_list])
                 /\ UNCHANGED failed_files
           \/ /\ failed_files' = Append(failed_files, doc_file)
              /\ processed' = Append(processed,
                                 [name |-> doc_file, raised |-> TRUE, chunks |-> <<>>])
              /\ UNCHANGED all_chunks
    /\ file_index' = file_index + 1
    /\ UNCHANGED <<bpc, directory_exists, batch_class, all_files, batch_result>>
    /\ UNCHANGED <<chunkVars, retrieveVars, extractVars, cleanVars, storeVars>>

\* one turn of the loop of DocumentProcessor.process_directory, which
\* keeps no list of the files that failed
CompleteProcessNext ==
    /\ bpc = "loop"
    /\ batch_class = "Complete"
    /\ file_index < Len(all_files)
    /\ LET pdf_file == all_files[file_index + 1]
       IN  \/ \E chunk_list \in DocumentChunks(pdf_file) :
                 /\ all_chunks' = Extend(all_chunks, chunk_list)
                 /\ processed' = Append(processed,
                                    [name |-> pdf_file, raised |-> FALSE, chunks |-> chunk_list])
           \/ /\ processed' = Append(processed,
                                 [name |-> pdf_file, raised |-> TRUE, chunks |-> <<>>])
              /\ UNCHANGED all_chunks
    /\ file_index' = file_index + 1
    /\ UNCHANGED <<bpc, directory_exists, batch_class, all_files, failed_files, batch_result>>
    /\ UNCHANGED <<chunkVars, retrieveVars, extractVars, cleanVars, storeVars>>

\* the loop is over: return all_chunks
ProcessDirectoryReturn ==
    /\ bpc = "loop"
    /\ file_index = Len(all_files)
    /\ batch_result' = Returned(all_chunks)
    /\ bpc' = "returned"
    /\ UNCHANGED <<directory_exists, batch_class, all_files, file_index, all_chunks,
                   failed_files, processed>>
    /\ UNCHANGED <<chunkVars, retrieveVars, extractVars, cleanVars, storeVars>>

(***************************************************************************)
(* clean_text applied to a raw text, and then to its own result.           *)
(***************************************************************************)
\* bound of the raw texts: the number of pieces put together
MaxPieces == 5

\* the pieces of a raw text: a letter, a space, a newline, a character that
\* the filter drops, one that only the Unified filter keeps, a page number,
\* and the series marker
Pieces == {<<"a">>, <<" ">>, <<NL>>, <<"@">>, <<"#">>, <<"1">>, SeriesMarker}

\* the raw texts: at most n pieces, one after another
RECURSIVE RawTexts(_)
RawTexts(n) ==
    IF n = 0 THEN {<<>>}
    ELSE LET shorter == RawTexts(n - 1)
         IN  shorter \cup {t \o p : t \in shorter, p \in Pieces}

\* a raw text in which characters that the filter drops stand between
\* single spaces
DroppedBetweenSpaces == {<<"a", " ", "@", " ", "@", " ", "@", " ", "a">>}

\* the character class [\w\s.,;:()\[\]\-/\n#|] of the Unified filter
KeptUnified(c) == Kept(c) \/ c \in {"#", "|"}

\* UnifiedDocumentProcessor.clean_text
clean_text_unified(t) ==
    Strip(SelectSeq(RemoveHeaders(NormalizeLineBreaks(CollapseWhitespace(t))), KeptUnified))

\* clean_text of a class
CleanWith(class, t) == IF class = "Unified" THEN clean_text_unified(t) ELSE clean_text(t)

\* cleaned = clean_text(raw_text)
CleanText ==
    /\ cpc = "idle"
    /\ cleaned' = CleanWith(cleaner, raw_text)
    /\ cpc' = "cleaned"
    /\ UNCHANGED <<cleaner, raw_text, recleaned>>
    /\ UNCHANGED <<chunkVars, retrieveVars, extractVars, batchVars, storeVars>>

\* recleaned = clean_text(cleaned)
CleanTextAgain ==
    /\ cpc = "cleaned"
    /\ recleaned' = CleanWith(cleaner, cleaned)
    /\ cpc' = "recleaned"
    /\ UNCHANGED <<cleaner, raw_text, cleaned>>
    /\ UNCHANGED <<chunkVars, retrieveVars, extractVars, batchVars, storeVars>>

(***************************************************************************)
(* VectorStore: add_chunks builds four parallel lists and hands them to    *)
(* the collection batch by batch; clear replaces the collection by an      *)
(* empty one.                                                              *)
(***************************************************************************)
\* bounds of the store model
MaxChunks == 201
MaxAddCalls == 2

\* batch_size = 100
batch_size == 100

\* the lengths of the chunk lists passed to add_chunks
ChunkCounts == {0, 1, batch_size - 1, batch_size, batch_size + 1, MaxChunks}

\* the chunk at position i (from 0) of the list of a call, as embed_chunks
\* returns it: with the metadata that chunk_text wrote, or with a metadata
\* mapping that has none of the fields the store reads
EmbeddedChunk(style, call, i) ==
    [text |-> [j \in 1..((i % 3) + 1) |-> "a"],
     embedding |-> <<call, i>>,
     metadata |-> IF style = "chunked"
                  THEN [source |-> "a.pdf", title |-> "T", chunk_index |-> i % 2,
                        start_char |-> 0, end_char |-> 5, chunk_size |-> (i % 3) + 1]
                  ELSE [title |-> "T"]]

EmbeddedChunks(style, call, n) == [p \in 1..n |-> EmbeddedChunk(style, call, p - 1)]

\* f"id_{i}"
StoreId(i) == [prefix |-> "id_", index |-> i]

\* the metadata dict built for the chunk at position i
StoredMetadata(chunk, i) ==
    [source |-> Get(chunk.metadata, "source", "unknown"),
     chunk_index |-> Get(chunk.metadata, "chunk_index", i),
     chunk_size |-> Get(chunk.metadata, "chunk_size", Len(chunk.text))]

\* (mutation of BatchEnd: a batch runs one record into the next one)
BatchEndOneMore(i, n) == Min(i + batch_size + 1, n)

\* batch_end = min(i + batch_size, len(ids))
BatchEnd(i, n) == Min(i + batch_size, n)

\* the records of one collection.add(ids=..., embeddings=..., documents=...,
\* metadatas=...): the four lists, read position by position
Records(batch) ==
    {[id |-> batch.ids[j], embedding |-> batch.embeddings[j],
      document |-> batch.documents[j], metadata |-> batch.metadatas[j]] :
        j \in 1..Len(batch.ids)}

StoredIds == {r.id : r \in collection}

\* add_chunks(chunks): the lists are built by the enumerate loop
AddChunksCall ==
    /\ vpc \in {"idle", "returned", "raised"}
    /\ add_calls < MaxAddCalls
    /\ \E n \in ChunkCounts, style \in {"chunked", "bare"} :
       \E chunk_list \in {EmbeddedChunks(style, add_calls + 1, n)} :
          /\ embedded_chunks' = chunk_list
          /\ ids' = [p \in 1..n |-> StoreId(p - 1)]
          /\ embeddings' = [p \in 1..n |-> chunk_list[p].embedding]
          /\ documents' = [p \in 1..n |-> chunk_list[p].text]
          /\ metadatas' = [p \in 1..n |-> StoredMetadata(chunk_list[p], p - 1)]
          /\ added' = Append(added, n)
    /\ batch_start' = 0
    /\ submitted' = <<>>
    /\ add_calls' = add_calls + 1
    /\ vpc' = "batches"
    /\ UNCHANGED collection
    /\ UNCHANGED <<chunkVars, retrieveVars, extractVars, batchVars, cleanVars>>

\* one turn of the batch loop: collection.add of the slice.  For ids that
\* the collection already holds, add either raises or leaves the stored
\* records as they are, depending on the version of the library
AddBatch ==
    /\ vpc = "batches"
    /\ batch_start < Len(ids)
    /\ \E batch_end \in {BatchEnd(batch_start, Len(ids))} :
       \E batch \in {[ids |-> Slice(ids, batch_start, batch_end),
                      embeddings |-> Slice(embeddings, batch_start, batch_end),
                      documents |-> Slice(documents, batch_start, batch_end),
                      metadatas |-> Slice(metadatas, batch_start, batch_end)]} :
          /\ submitted' = Append(submitted, batch)
          /\ \/ /\ collection' = collection \cup {r \in Records(batch) : r.id \notin StoredIds}
                /\ batch_start' = batch_start + batch_size
                /\ vpc' = "batches"
             \/ /\ \E r \in Records(batch) : r.id \in StoredIds
                /\ vpc' = "raised"
                /\ UNCHANGED <<collection, batch_start>>
    /\ UNCHANGED <<embedded_chunks, ids, embeddings, documents, metadatas, added, add_calls>>
    /\ UNCHANGED <<chunkVars, retrieveVars, extractVars, batchVars, cleanVars>>

\* the batch loop is over: add_chunks returns
AddChunksReturn ==
    /\ vpc = "batches"
    /\ batch_start >= Len(ids)
    /\ vpc' = "returned"
    /\ UNCHANGED <<collection, embedded_chunks, ids, embeddings, documents, metadatas,
                   batch_start, submitted, added, add_calls>>
    /\ UNCHANGED <<chunkVars, retrieveVars, extractVars, batchVars, cleanVars>>

\* clear(): delete_collection, then create_collection
Clear ==
    /\ vpc \in {"returned", "raised"}
    /\ collection' = {}
    /\ added' = <<>>
    /\ vpc' = "idle"
    /\ UNCHANGED <<embedded_chunks, ids, embeddings, documents, metadatas, batch_start,
                   submitted, add_calls>>
    /\ UNCHANGED <<chunkVars, retrieveVars, extractVars, batchVars, cleanVars>>

(***************************************************************************)
(* Specifications: one for each component.                                 *)
(***************************************************************************)
ChunkerIdle ==
    /\ pc = "idle"
    /\ text = <<>>
    /\ metadata = << >>
    /\ chunks = <<>>
    /\ chunk_id = 0
    /\ start = 0
    /\ end = 0
    /\ iterations = <<>>

RetrieverIdle ==
    /\ rpc = "idle"
    /\ port_calls = <<>>
    /\ error = None
    /\ top_k = None
    /\ source_filter = None
    /\ n_results = <<>>
    /\ results = [documents |-> <<>>, metadatas |-> <<>>, distances |-> <<>>]
    /\ retrieved_docs = <<>>

\* no load call yet
LoaderIdle ==
    /\ xpc = "idle"
    /\ file_exists = FALSE
    /\ suffix = <<>>
    /\ outcome = "none"
    /\ trace = <<>>

\* a processor object that loads nothing in this specification
NoLoader ==
    /\ processor = "Docx"
    /\ platform = "linux"
    /\ extraction_method = "auto"
    /\ available_methods = {}
    /\ available_processors = [pdf |-> FALSE, docx |-> FALSE, doc |-> FALSE, doc_methods |-> {}]
    /\ LoaderIdle

BatchIdle ==
    /\ bpc = "idle"
    /\ directory_exists = FALSE
    /\ batch_class = "Unified"
    /\ all_files = <<>>
    /\ file_index = 0
    /\ all_chunks = <<>>
    /\ failed_files = <<>>
    /\ batch_result = Returned(<<>>)
    /\ processed = <<>>

CleanerIdle ==
    /\ cpc = "idle"
    /\ cleaner = "Complete"
    /\ raw_text = <<>>
    /\ cleaned = <<>>
    /\ recleaned = <<>>

\* a new VectorStore on an empty collection
StoreIdle ==
    /\ vpc = "idle"
    /\ collection = {}
    /\ embedded_chunks = <<>>
    /\ ids = <<>>
    /\ embeddings = <<>>
    /\ documents = <<>>
    /\ metadatas = <<>>
    /\ batch_start = 0
    /\ submitted = <<>>
    /\ added = <<>>
    /\ add_calls = 0

PipelineIdle == NoLoader /\ BatchIdle /\ CleanerIdle /\ StoreIdle

InitChunk ==
    /\ chunk_size \in 1..MaxChunkSize
    /\ chunk_overlap \in 0..MaxOverlap
    /\ min_chunk_size \in 0..MaxMinChunk
    /\ ChunkerIdle
    /\ self_top_k = 1
    /\ RetrieverIdle
    /\ PipelineIdle

NextChunk ==
    \/ ChunkTextCall
    \/ ChunkIter
    \/ ChunkReturn

SpecChunk == InitChunk /\ [][NextChunk]_vars

\* processors configured for long texts: the configuration of
\* test_chunk_text_basic, and neighbours of it
InitLong ==
    /\ chunk_size \in {ScenarioChunkSize, 3 * ScenarioChunkSize}
    /\ chunk_overlap \in {0, ScenarioOverlap}
    /\ min_chunk_size \in {0, ScenarioMinChunk}
    /\ ChunkerIdle
    /\ self_top_k = 1
    /\ RetrieverIdle
    /\ PipelineIdle

NextLong ==
    \/ ChunkLongTextCall
    \/ ChunkIter
    \/ ChunkReturn

SpecLong == InitLong /\ [][NextLong]_vars

InitRetrieve ==
    /\ chunk_size = 1
    /\ chunk_overlap = 0
    /\ min_chunk_size = 0
    /\ ChunkerIdle
    /\ self_top_k \in 1..MaxTopK
    /\ RetrieverIdle
    /\ PipelineIdle

RetrieveCall == \E k \in TopKs, flt \in SourceFilters : Retrieve(k, flt)

NextRetrieve == RetrieveCall

SpecRetrieve == InitRetrieve /\ [][NextRetrieve]_vars

\* the objects after construction: what was detected is recorded
InitExtract ==
    /\ chunk_size = 1
    /\ chunk_overlap = 0
    /\ min_chunk_size = 0
    /\ ChunkerIdle
    /\ self_top_k = 1
    /\ RetrieverIdle
    /\ BatchIdle
    /\ CleanerIdle
    /\ StoreIdle
    /\ LoaderIdle
    /\ platform \in Platforms
    /\ \/ /\ processor = "Legacy"
          /\ extraction_method \in ExtractionMethods
          /\ available_methods \in DetectedMethods(platform, Backends)
          /\ available_processors = [pdf |-> FALSE, docx |-> FALSE, doc |-> FALSE, doc_methods |-> {}]
       \/ /\ processor = "Unified"
          /\ extraction_method = "auto"
          /\ available_methods = {}
          /\ available_processors \in DetectedProcessors(platform)
       \/ /\ processor = "Docx"
          /\ extraction_method = "auto"
          /\ available_methods = {}
          /\ available_processors = [pdf |-> FALSE, docx |-> FALSE, doc |-> FALSE, doc_methods |-> {}]

NextExtract ==
    \/ LegacyLoadDoc
    \/ UnifiedLoadDocument
    \/ DocxLoadDocument

SpecExtract == InitExtract /\ [][NextExtract]_vars

InitBatch ==
    /\ chunk_size = 1
    /\ chunk_overlap = 0
    /\ min_chunk_size = 0
    /\ ChunkerIdle
    /\ self_top_k = 1
    /\ RetrieverIdle
    /\ PipelineIdle

NextBatch ==
    \/ ProcessDirectoryCall
    \/ UnifiedProcessNext
    \/ CompleteProcessNext
    \/ ProcessDirectoryReturn

SpecBatch == InitBatch /\ [][NextBatch]_vars

\* the raw text and the class are the inputs
InitClean ==
    /\ chunk_size = 1
    /\ chunk_overlap = 0
    /\ min_chunk_size = 0
    /\ ChunkerIdle
    /\ self_top_k = 1
    /\ RetrieverIdle
    /\ NoLoader
    /\ BatchIdle
    /\ StoreIdle
    /\ cpc = "idle"
    /\ cleaner \in {"Complete", "Unified"}
    /\ raw_text \in RawTexts(MaxPieces) \cup DroppedBetweenSpaces
    /\ cleaned = <<>>
    /\ recleaned = <<>>

NextClean ==
    \/ CleanText
    \/ CleanTextAgain

SpecClean == InitClean /\ [][NextClean]_vars

\* a new VectorStore, as build_index.py makes it
InitStore ==
    /\ chunk_size = 1
    /\ chunk_overlap = 0
    /\ min_chunk_size = 0
    /\ ChunkerIdle
    /\ self_top_k = 1
    /\ RetrieverIdle
    /\ PipelineIdle

NextStore ==
    \/ AddChunksCall
    \/ AddBatch
    \/ AddChunksReturn
    \/ Clear

SpecStore == InitStore /\ [][NextStore]_vars

(***************************************************************************)
(* Properties of chunk_text (checked under SpecChunk).                     *)
(***************************************************************************)
\* the loop iterations that appended a chunk, and the iteration of chunk i
EmittedIters == {j \in 1..Len(iterations) : iterations[j].emitted}
IterOf(i) == CHOOSE j \in EmittedIters : Cardinality({m \in EmittedIters : m <= j}) = i
StartChar(i) == chunks[i].metadata["start_char"]
EndChar(i) == chunks[i].metadata["end_char"]
\* the slice of the text that iteration j cut, trimmed
TrimmedSlice(j) == Strip(Slice(text, iterations[j].start, iterations[j].end))

\* C1: with chunk_size > 0 and 0 <= chunk_overlap < chunk_size, every loop
\* iteration ends its slice strictly after the end of the previous
\* iteration's slice (which is what makes the cursor reach len(text) after
\* finitely many iterations).
C1_EndStrictlyGrows ==
    [][(/\ chunk_size > 0 /\ 0 <= chunk_overlap /\ chunk_overlap < chunk_size
        /\ pc = "loop" /\ pc' = "loop"
        /\ Len(iterations') > Len(iterations))
       => end' > end]_vars

C3_SequentialIds ==
    \A i \in 1..Len(chunks) :
        /\ chunks[i].chunk_id = i - 1
        /\ chunks[i].metadata["chunk_index"] = i - 1

\* a returned list with a dropped slice between two chunks
C3_Witness ==
    /\ pc = "done"
    /\ \E j1, j2, j3 \in 1..Len(iterations) :
          /\ j1 < j2 /\ j2 < j3
          /\ iterations[j1].emitted /\ ~iterations[j2].emitted /\ iterations[j3].emitted

C5_OverlapAdjacent ==
    (pc = "done" /\ chunk_overlap > 0) =>
        \A i \in 1..(Len(chunks) - 1) :
            ~iterations[IterOf(i)].snapped =>
                EndChar(i) - StartChar(i + 1) = chunk_overlap

\* C5 (amended): the same, for the adjacent chunks that come from
\* consecutive loop iterations (no slice was dropped between them).
C5_OverlapConsecutive ==
    (pc = "done" /\ chunk_overlap > 0) =>
        \A i \in 1..(Len(chunks) - 1) :
            (~iterations[IterOf(i)].snapped /\ IterOf(i + 1) = IterOf(i) + 1) =>
                EndChar(i) - StartChar(i + 1) = chunk_overlap

\* two chunks of consecutive iterations, the first with an arithmetic end
C5_Witness ==
    /\ pc = "done"
    /\ chunk_overlap > 0
    /\ \E i \in 1..(Len(chunks) - 1) :
          ~iterations[IterOf(i)].snapped /\ IterOf(i + 1) = IterOf(i) + 1

(***************************************************************************)
(* Properties of retrieve (checked under SpecRetrieve).                    *)
(***************************************************************************)
\* the budget that the caller asked for: top_k, or the default when none
AskedK == IF top_k = None THEN self_top_k ELSE top_k[1]
\* whether candidate i of the answer passes the caller's filter
Matches(i) ==
    source_filter = None
        \/ IsSubstring(source_filter[1], Get(results.metadatas[i], "source", <<>>))
MatchingRanks == {i \in 1..Len(results.documents) : Matches(i)}
\* whether the candidate behind a returned document has a source field
HasSource(doc) == "source" \in DOMAIN results.metadatas[doc.text]

\* C6: with top_k passed explicitly, at most top_k documents are returned.
C6_AtMostTopK ==
    (rpc = "returned" /\ top_k # None) => Len(retrieved_docs) <= top_k[1]

\* C7: the similarity values of a returned list are non-increasing, and the
\* documents keep the order in which the Index Port returned them.
C7_SimilarityNonIncreasing ==
    rpc = "returned" =>
        \A i \in 1..(Len(retrieved_docs) - 1) :
            /\ retrieved_docs[i].similarity >= retrieved_docs[i + 1].similarity
            /\ retrieved_docs[i].text < retrieved_docs[i + 1].text

\* a filtered call that skipped a candidate between two returned documents
\* of different similarity
C7_Witness ==
    /\ rpc = "returned"
    /\ TruthyStr(source_filter)
    /\ Len(retrieved_docs) >= 2
    /\ retrieved_docs[1].similarity > retrieved_docs[2].similarity
    /\ retrieved_docs[2].text > retrieved_docs[1].text + 1

\* C8 (as stated): with source_filter = s, every returned source contains
\* s, and no candidate without a source field is returned.
C8_FilterAndNoDefaultName ==
    (rpc = "returned" /\ source_filter # None) =>
        \A i \in 1..Len(retrieved_docs) :
            /\ IsSubstring(source_filter[1], retrieved_docs[i].source)
            /\ HasSource(retrieved_docs[i])

\* C8 (amended): with source_filter = s, every returned source contains s,
\* and for a non-empty s no candidate without a source field is returned.
C8_FilterCorrect ==
    (rpc = "returned" /\ source_filter # None) =>
        \A i \in 1..Len(retrieved_docs) :
            /\ IsSubstring(source_filter[1], retrieved_docs[i].source)
            /\ source_filter[1] # <<>> => HasSource(retrieved_docs[i])

\* a call with a non-empty filter whose answer held a candidate without a
\* source, and that returned a document
C8_Witness ==
    /\ rpc = "returned"
    /\ TruthyStr(source_filter)
    /\ retrieved_docs # <<>>
    /\ \E i \in 1..Len(results.metadatas) : "source" \notin DOMAIN results.metadatas[i]

\* C9: the returned list is the first min(top_k, m) candidates that pass
\* the filter, in the Index Port's order, m being their number.
C9_ExactPrefix ==
    rpc = "returned" =>
        /\ Len(retrieved_docs) = Min(AskedK, Cardinality(MatchingRanks))
        /\ \A j \in 1..Len(retrieved_docs) :
              /\ retrieved_docs[j].text \in MatchingRanks
              /\ Cardinality({i \in MatchingRanks : i <= retrieved_docs[j].text}) = j

\* C10: one query per call, for 2 * top_k candidates when a source_filter
\* other than None is passed and for top_k candidates otherwise.
C10_SingleQuery ==
    rpc = "returned" =>
        n_results = <<IF source_filter # None THEN 2 * AskedK ELSE AskedK>>

(***************************************************************************)
(* Properties of the document loaders (checked under SpecExtract).         *)
(***************************************************************************)
Upper(c) ==
    CASE c = "p" -> "P" [] c = "d" -> "D" [] c = "f" -> "F"
      [] c = "o" -> "O" [] c = "c" -> "C" [] c = "x" -> "X"
      [] OTHER -> c
\* the suffix s is the extension e, written in any case
EqIgnoreCase(s, e) ==
    Len(s) = Len(e) /\ \A i \in 1..Len(e) : s[i] \in {e[i], Upper(e[i])}
\* a load call was made
Called == xpc # "idle"
\* the positions of trace that hold an entry of a kind
Entries(kind) == {i \in 1..Len(trace) : trace[i].kind = kind}
\* the legacy .doc methods recorded at construction
Detected ==
    IF processor = "Legacy" THEN available_methods ELSE available_processors.doc_methods
\* the rank of a method in the preference list: the platform's own tools,
\* then the generic library, then the conversion by a document suite
PreferenceTier(b) ==
    CASE b \in {"win32com", "antiword"} -> 1
      [] b = "textract" -> 2
      [] OTHER -> 3
\* the extensions that a class handles, and the loaders of an extension
Formats(class) == IF class = "Unified" THEN {DotPdf, DotDocx, DotDoc} ELSE {DotDocx, DotDoc}
Recognized(class, s) == \E e \in Formats(class) : EqIgnoreCase(s, e)
LoadersFor(s) ==
    IF EqIgnoreCase(s, DotPdf) THEN {"_load_pdf"}
    ELSE IF EqIgnoreCase(s, DotDocx) THEN {"_load_docx", "load_docx"}
    ELSE IF EqIgnoreCase(s, DotDoc) THEN {"_load_doc", "load_doc"}
    ELSE {}
\* the file's format is handled, and no backend for it was detected at
\* construction (or the method asked for by name was not)
NoBackendDetected ==
    IF processor = "Unified"
    THEN \/ EqIgnoreCase(suffix, DotPdf) /\ ~available_processors.pdf
         \/ EqIgnoreCase(suffix, DotDocx) /\ ~available_processors.docx
         \/ EqIgnoreCase(suffix, DotDoc) /\ available_processors.doc_methods = {}
    ELSE /\ EqIgnoreCase(suffix, DotDoc)
         /\ \/ available_methods = {}
            \/ extraction_method # "auto" /\ extraction_method \notin available_methods

\* C11: a load call on an existing legacy .doc file, some method having
\* been detected at construction, invokes exactly one method, one of the
\* best tier of the preference list among the detected ones, and ends with
\* that method's result or failure (no other method is tried).
C11_FirstPreferredOnly ==
    (/\ Called /\ processor \in {"Legacy", "Unified"}
     /\ file_exists /\ EqIgnoreCase(suffix, DotDoc) /\ Detected # {}) =>
        /\ Cardinality(Entries("run")) = 1
        /\ \A i \in Entries("run") :
              /\ trace[i].what \in Detected
              /\ \A b \in Detected : PreferenceTier(trace[i].what) <= PreferenceTier(b)
        /\ outcome \in {"ok", "ExtractionFailed"}

C13_NotFoundFirst ==
    (Called /\ ~file_exists) => (outcome = "NotFound" /\ trace = <<>>)

\* C14: for an existing file of a handled format for which no backend was
\* detected at construction, or whose method asked for by name was not
\* detected, the load call fails with BackendUnavailable and invokes no
\* backend.
C14_BackendUnavailable ==
    (Called /\ processor \in {"Legacy", "Unified"} /\ file_exists /\ NoBackendDetected) =>
        (outcome = "BackendUnavailable" /\ Entries("run") = {})

\* a method asked for by name that was not detected, others being detected
C14_Witness ==
    /\ Called /\ processor = "Legacy" /\ file_exists
    /\ EqIgnoreCase(suffix, DotDoc)
    /\ extraction_method \in Backends \ available_methods
    /\ available_methods # {}
    /\ outcome = "BackendUnavailable"

\* C15: no load call probes for the availability of a backend.
C15_NoProbeInCall == Called => Entries("probe") = {}

\* C16: every temporary directory that a load call created has been removed
\* when the call has returned or raised.
C16_TempDirRemoved ==
    Called =>
        /\ \A i \in Entries("mkdtemp") : \E j \in Entries("rmtree") : j > i
        /\ Cardinality(Entries("mkdtemp")) = Cardinality(Entries("rmtree"))

\* a conversion that exited normally without writing the text file: the
\* call raised from inside the block that holds the directory
C16_Witness ==
    /\ xpc = "raised"
    /\ outcome = "ExtractionFailed"
    /\ Entries("mkdtemp") # {}
    /\ \E i \in Entries("converted") : trace[i].what = "no_output"

(***************************************************************************)
(* Properties of process_directory (checked under SpecBatch).              *)
(***************************************************************************)
\* the chunks of the documents taken so far that did not raise, in order
RECURSIVE ChunksOfSuccesses(_)
ChunksOfSuccesses(n) ==
    IF n = 0 THEN <<>>
    ELSE ChunksOfSuccesses(n - 1) \o
            (IF processed[n].raised THEN <<>> ELSE processed[n].chunks)
\* the names of the documents whose processing raised
FailedNames == {processed[i].name : i \in {j \in 1..Len(processed) : processed[j].raised}}
\* the accounting of failed names that the returned value carries
ReturnedAccounting ==
    IF "failed_files" \in DOMAIN batch_result THEN batch_result.failed_files ELSE <<>>

\* C17: the documents are taken one after another in the order listed, a
\* document that raises does not end the loop, and the list returned is
\* the concatenation, in that order, of the chunks of the documents that
\* did not raise.
C17_BatchSurvivesFailures ==
    /\ Len(processed) = file_index
    /\ \A i \in 1..Len(processed) : processed[i].name = all_files[i]
    /\ all_chunks = ChunksOfSuccesses(Len(processed))
    /\ bpc = "returned" =>
          /\ Len(processed) = Len(all_files)
          /\ batch_result.chunks = ChunksOfSuccesses(Len(all_files))

\* a returned batch in which a document raised between two documents that
\* gave chunks
C17_Witness ==
    /\ bpc = "returned"
    /\ Len(processed) = 3
    /\ processed[1].chunks # <<>>
    /\ processed[2].raised
    /\ processed[3].chunks # <<>>

\* C18: the value returned by a batch carries an accounting of failed
\* names that holds exactly the names of the documents that raised, each
\* once.
C18_FailedAccountingReturned ==
    bpc = "returned" =>
        /\ {ReturnedAccounting[i] : i \in 1..Len(ReturnedAccounting)} = FailedNames
        /\ Len(ReturnedAccounting) = Cardinality(FailedNames)

(***************************************************************************)
(* Properties of clean_text (checked under SpecClean).                     *)
(***************************************************************************)
\* the positions of t at which s occurs
Occurrences(s, t) == {i \in 1..(Len(t) - Len(s) + 1) : SubSeq(t, i, i + Len(s) - 1) = s}
\* the raw text holds a line made of a page number and the series marker,
\* and the marker nowhere else
HasOneHeaderLine(t) ==
    /\ Cardinality(Occurrences(SeriesMarker, t)) = 1
    /\ \E i \in 1..Len(t) :
          /\ HeaderMatchEnd(t, i) # 0
          /\ \A g \in Occurrences(SeriesMarker, t) : \A j \in (i + 1)..g : t[j] # NL

\* C19: cleaning a cleaned text again changes nothing.
C19_Idempotent == cpc = "recleaned" => recleaned = cleaned

\* C20: a line of the raw text made of a page number followed by the series
\* marker does not appear in the cleaned text.
C20_HeaderLineRemoved ==
    (cpc # "idle" /\ HasOneHeaderLine(raw_text)) => Occurrences(SeriesMarker, cleaned) = {}

\* C21: the cleaned text holds no run of excessive whitespace: neither
\* four consecutive spaces nor three consecutive newlines.
C21_NoWhitespaceRuns ==
    cpc # "idle" =>
        /\ Occurrences(<<" ", " ", " ", " ">>, cleaned) = {}
        /\ Occurrences(<<NL, NL, NL>>, cleaned) = {}

(***************************************************************************)
(* Further properties of chunk_text (checked under SpecChunk).             *)
(***************************************************************************)
\* the four fields that chunk_text writes into a chunk's metadata
ChunkFields == {"chunk_index", "start_char", "end_char", "chunk_size"}

\* C22: every chunk's start_char and end_char are offsets into the cleaned
\* text, 0 <= start_char < end_char <= len(text), and its chunk_size is
\* the length of its text.
C22_OffsetsWithinText ==
    \A i \in 1..Len(chunks) :
        /\ 0 <= StartChar(i)
        /\ StartChar(i) < EndChar(i)
        /\ EndChar(i) <= Len(text)
        /\ chunks[i].metadata["chunk_size"] = Len(chunks[i].text)

\* C23: the caller's metadata mapping is not changed by the call, and the
\* metadata of every chunk holds the caller's keys and the four chunk
\* fields, with the caller's value under every key that is no chunk field.
C23_MetadataPreserved ==
    /\ [](\A i \in 1..Len(chunks) :
             /\ DOMAIN chunks[i].metadata = DOMAIN metadata \cup ChunkFields
             /\ \A k \in DOMAIN metadata \ ChunkFields : chunks[i].metadata[k] = metadata[k]
             /\ chunks[i].metadata["chunk_index"] = chunks[i].chunk_id)
    /\ [][pc # "idle" => metadata' = metadata]_vars

\* a returned list of several chunks for a caller's mapping that already
\* holds a key named like a chunk field
C23_Witness ==
    /\ pc = "done"
    /\ Len(chunks) >= 2
    /\ "chunk_size" \in DOMAIN metadata
    /\ chunks[2].metadata["chunk_size"] # metadata["chunk_size"]

\* C25: with chunk_size > 0 and chunk_overlap >= chunk_size the loop ends:
\* no iteration starts at a cursor at which an earlier iteration of the
\* call started (what the loop does next depends on the cursor alone, so a
\* cursor that comes back comes back for ever).
C25_CursorNeverRecurs ==
    (chunk_size > 0 /\ chunk_overlap >= chunk_size) =>
        \A i, j \in 1..Len(iterations) :
            i < j => iterations[i].start # iterations[j].start

\* C27: process_directory on an existing directory without a supported
\* document returns an empty chunk list: it does not raise, and it hands no
\* document to an extractor.
C27_EmptyDirectoryReturnsEmpty ==
    (bpc # "idle" /\ directory_exists /\ all_files = <<>>) =>
        /\ bpc = "returned"
        /\ batch_result = Returned(<<>>)
        /\ processed = <<>>

\* both classes have returned from an existing directory in which they
\* found nothing
C27_Witness ==
    /\ bpc = "returned"
    /\ directory_exists
    /\ all_files = <<>>
    /\ batch_result.chunks = <<>>

(***************************************************************************)
(* Failures of the ports in retrieve (checked under SpecRetrieve).         *)
(***************************************************************************)
\* the positions of port_calls that hold a call of a port
CallsOf(port) == {i \in 1..Len(port_calls) : port_calls[i].port = port}

\* C26: a retrieve makes exactly one embedding call, before any index
\* query; when the embedding call fails, the index is not queried in that
\* call and retrieve raises the very failure of the Embedding Port.
C26_EmbeddingFailurePropagates ==
    rpc # "idle" =>
        /\ Cardinality(CallsOf("embed")) = 1
        /\ \A i \in CallsOf("embed"), j \in CallsOf("query") : i < j
        /\ \A i \in CallsOf("embed") :
              port_calls[i].outcome # "ok" =>
                  /\ CallsOf("query") = {}
                  /\ n_results = <<>>
                  /\ rpc = "raised"
                  /\ error = Some(port_calls[i].outcome)

\* a retrieve whose embedding call raised ValueError
C26_Witness ==
    /\ rpc = "raised"
    /\ port_calls # <<>>
    /\ port_calls[1] = PortCall("embed", "ValueError")
    /\ error = Some("ValueError")

(***************************************************************************)
(* Properties of the vector store (checked under SpecStore).               *)
(***************************************************************************)
\* the records submitted by the first k collection.add calls, in order
RECURSIVE SubmittedUpTo(_)
SubmittedUpTo(k) ==
    IF k = 0 THEN <<>>
    ELSE SubmittedUpTo(k - 1) \o
             [j \in 1..Len(submitted[k].ids) |->
                 [id |-> submitted[k].ids[j], embedding |-> submitted[k].embeddings[j],
                  document |-> submitted[k].documents[j],
                  metadata |-> submitted[k].metadatas[j]]]
\* the least number of batches of at most batch_size records that hold n
BatchesNeeded(n) == (n + batch_size - 1) \div batch_size
\* the sum of a sequence of numbers
RECURSIVE SumOf(_)
SumOf(s) == IF s = <<>> THEN 0 ELSE s[1] + SumOf(Tail(s))

\* C29: the batches of one add_chunks call hold between 1 and 100 records
\* each, and together they are the chunks of the list, each once and in the
\* list's order: record p has the id of position p and the embedding, the
\* text and the stored metadata fields of chunk p.  A call that returned
\* has submitted all n chunks, in ceil(n/100) batches.
C29_BatchedInOrder ==
    vpc # "idle" =>
        LET all == SubmittedUpTo(Len(submitted))
        IN  /\ \A k \in 1..Len(submitted) :
                  /\ Len(submitted[k].ids) \in 1..batch_size
                  /\ Len(submitted[k].embeddings) = Len(submitted[k].ids)
                  /\ Len(submitted[k].documents) = Len(submitted[k].ids)
                  /\ Len(submitted[k].metadatas) = Len(submitted[k].ids)
                  /\ k < Len(submitted) => Len(submitted[k].ids) = batch_size
            /\ Len(all) <= Len(embedded_chunks)
            /\ \A p \in 1..Len(all) :
                  /\ all[p].id = StoreId(p - 1)
                  /\ all[p].embedding = embedded_chunks[p].embedding
                  /\ all[p].document = embedded_chunks[p].text
                  /\ all[p].metadata = StoredMetadata(embedded_chunks[p], p - 1)
            /\ vpc = "returned" =>
                  /\ Len(all) = Len(embedded_chunks)
                  /\ Len(submitted) = BatchesNeeded(Len(embedded_chunks))

\* a call that returned after three batches, the last one shorter
C29_Witness ==
    /\ vpc = "returned"
    /\ Len(embedded_chunks) > 2 * batch_size
    /\ Len(submitted) = 3
    /\ Len(submitted[3].ids) < batch_size

\* C30: after add_chunks calls without a clear between them the collection
\* holds as many records as the lists added since the last clear held
\* chunks: each call appends under ids that the collection did not hold.
C30_CountIsSumOfAdded ==
    vpc \in {"returned", "raised"} => Cardinality(collection) = SumOf(added)

(***************************************************************************)
(* Properties of chunk_text on long texts (checked under SpecLong).        *)
(***************************************************************************)
\* the text of test_chunk_text_basic, after clean_text
ScenarioText == clean_text(Repeat(Sentence, ScenarioRepeats))
\* chunk_text has returned from the call of test_chunk_text_basic
ScenarioDone ==
    /\ pc = "done"
    /\ text = ScenarioText
    /\ chunk_size = ScenarioChunkSize
    /\ chunk_overlap = ScenarioOverlap
    /\ min_chunk_size = ScenarioMinChunk
\* every chunk has at least min_chunk_size characters and the caller's source
ScenarioChunksWellFormed ==
    \A i \in 1..Len(chunks) :
        /\ Len(chunks[i].text) >= ScenarioMinChunk
        /\ chunks[i].metadata["source"] = metadata["source"]

\* C24 (as stated): the scenario yields at least 4 chunks, each of at least
\* 20 characters and with the caller's source.
C24_AtLeastFourChunks ==
    ScenarioDone => (Len(chunks) >= 4 /\ ScenarioChunksWellFormed)

\* C24 (amended): the scenario yields exactly 3 chunks, each of at least
\* 20 characters and with the caller's source.
C24_ExactlyThreeChunks ==
    ScenarioDone => (Len(chunks) = 3 /\ ScenarioChunksWellFormed)

\* the scenario's call has returned, its first slice moved to the last
\* sentence end of the window
C24_Witness ==
    /\ ScenarioDone
    /\ chunks # <<>>
    /\ iterations[1].snapped
    /\ iterations[1].end > ScenarioChunkSize

\* C28: in every iteration the end of the slice lies within 100 characters
\* of start + chunk_size and after start, and no chunk spans more than
\* chunk_size + 100 characters of the text.
C28_SnapWithinWindow ==
    /\ \A i \in 1..Len(iterations) :
          /\ iterations[i].end - (iterations[i].start + chunk_size) <= 100
          /\ (iterations[i].start + chunk_size) - iterations[i].end <= 100
          /\ iterations[i].end > iterations[i].start
    /\ \A i \in 1..Len(chunks) : EndChar(i) - StartChar(i) <= chunk_size + 100

\* a slice whose end was moved by the full width of the window, in a call
\* that passed over a sentence end outside the window before
C28_Witness ==
    \E i \in 1..Len(iterations) :
        /\ iterations[i].snapped
        /\ iterations[i].end - (iterations[i].start + chunk_size) = 100

====
